---------------------------- MODULE Spec2Model ----------------------------
(***************************************************************************)
(* A model of the claude-code-api gateway: one chat-completion request     *)
(* that launches the Claude CLI as a subprocess (claude.Process.Start),    *)
(* the stdout parser goroutine that decodes its JSONL output onto the      *)
(* Output channel, the exit-waiting goroutine, and the two consumers of    *)
(* the channel (handleStreamingResponse, handleNonStreamingResponse).      *)
(* SpecDeadline adds the request's deadline and the scheduler's fairness;  *)
(* SpecGate models Manager.CreateSession called by several requests at     *)
(* once; SpecStop adds calls of Process.Stop; SpecExtract applies the two  *)
(* text extraction functions to a content value.                           *)
(***************************************************************************)
EXTENDS Integers, Sequences, FiniteSets, TLC

(***************************************************************************)
(* Bounds of the model.                                                    *)
(***************************************************************************)
\* Lines the subprocess writes to its standard output in one run, at most.
MaxLines == 3

\* Capacity of the Output channel.  The program allocates 100
\* (make(chan models.ClaudeMessage, 100)); the model scales it down so that
\* the parser's send blocks on a full channel within MaxLines lines, also
\* after the consumer has left (MaxLines >= OutputCap + 2).
OutputCap == 1

\* Concurrent CreateSession calls of SpecGate.
NumCalls == 3

\* Largest configured MAX_CONCURRENT_SESSIONS of SpecGate (0 .. MaxCeiling).
MaxCeiling == 2

\* Blocks of a content value of SpecExtract, at most.
MaxBlocks == 2

\* GetVersion calls of SpecVersion, sequential or concurrent.
NumVersionCalls == 3

(***************************************************************************)
(* Text.  A Go string is a sequence of one-character strings.              *)
(***************************************************************************)
NoText == << >>

\* unicode.IsSpace, on the characters the model uses.
IsSpace(c) == c \in {" ", "\n", "\t"}

\* len(strings.Fields(s)): the number of maximal runs of non-space characters.
FieldsLen(s) ==
  Cardinality({i \in 1..Len(s) :
                 /\ ~IsSpace(s[i])
                 /\ (i = 1 \/ IsSpace(s[i-1]))})

RECURSIVE JoinFrom(_, _, _)
JoinFrom(parts, sep, i) ==
  IF i > Len(parts) THEN NoText
  ELSE IF i = Len(parts) THEN parts[i]
  ELSE parts[i] \o sep \o JoinFrom(parts, sep, i + 1)

\* strings.Join(parts, sep)
Join(parts, sep) == JoinFrom(parts, sep, 1)

NL == <<"\n">>

(***************************************************************************)
(* Content of a Claude message: a JSON string, a JSON array of blocks, or  *)
(* any other JSON value (content any).  A block is a JSON object whose     *)
(* "text" and "content" members may be absent, a string, or another value. *)
(***************************************************************************)
StrContent(s) == [kind |-> "string", s |-> s, blocks |-> << >>]
BlockContent(bs) == [kind |-> "blocks", s |-> NoText, blocks |-> bs]
OtherContent == [kind |-> "other", s |-> NoText, blocks |-> << >>]

Block(type, textKind, text, contentKind, content) ==
  [type |-> type, textKind |-> textKind, text |-> text,
   contentKind |-> contentKind, content |-> content]

TextBlock(t) == Block("text", "string", t, "absent", NoText)
ToolUseBlock == Block("tool_use", "absent", NoText, "absent", NoText)

RECURSIVE AllTextFrom(_, _)
AllTextFrom(bs, i) ==
  IF i > Len(bs) THEN << >>
  ELSE IF bs[i].type = "text" /\ bs[i].textKind = "string"
       THEN <<bs[i].text>> \o AllTextFrom(bs, i + 1)
  ELSE AllTextFrom(bs, i + 1)

RECURSIVE FirstTextFrom(_, _)
FirstTextFrom(bs, i) ==
  IF i > Len(bs) THEN NoText
  ELSE IF bs[i].type = "text" /\ bs[i].textKind = "string" THEN bs[i].text
  ELSE FirstTextFrom(bs, i + 1)

\* ExtractTextContent without the return inside the loop: the texts of all
\* the text blocks, run together.
ExtractTextContentMerged(content) ==
  CASE content.kind = "string" -> content.s
    [] content.kind = "blocks" -> Join(AllTextFrom(content.blocks, 1), NoText)
    [] OTHER -> NoText

\* streaming.ExtractTextContent: the single-event rule.
ExtractTextContent(content) ==
  CASE content.kind = "string" -> content.s
    [] content.kind = "blocks" -> FirstTextFrom(content.blocks, 1)
    [] OTHER -> NoText

\* The loop of GetTextContent over the items from the i-th on: parts.  An
\* item with a "text" member never reaches the "content" branch.
RECURSIVE PartsFrom(_, _)
PartsFrom(bs, i) ==
  IF i > Len(bs) THEN << >>
  ELSE IF bs[i].textKind # "absent"
       THEN (IF bs[i].textKind = "string" THEN <<bs[i].text>> ELSE << >>)
              \o PartsFrom(bs, i + 1)
  ELSE IF bs[i].contentKind # "absent"
       THEN (IF bs[i].contentKind = "string" THEN <<bs[i].content>>
             ELSE << >>) \o PartsFrom(bs, i + 1)
  ELSE PartsFrom(bs, i + 1)

\* GetTextContent without the "content" branch.
GetTextContentNoFallback(content) ==
  CASE content.kind = "string" -> content.s
    [] content.kind = "blocks" ->
         LET picked == SelectSeq(content.blocks,
                                 LAMBDA b : b.textKind = "string")
         IN  Join([i \in 1..Len(picked) |-> picked[i].text], NL)
    [] OTHER -> NoText

\* (*ChatMessage).GetTextContent: the whole-message rule.
GetTextContent(content) ==
  CASE content.kind = "string" -> content.s
    [] content.kind = "blocks" -> Join(PartsFrom(content.blocks, 1), NL)
    [] OTHER -> NoText

(***************************************************************************)
(* models.ClaudeMessage, as far as the gateway reads it: Type, SessionID,  *)
(* Message (nil or not) and Message.Content.                               *)
(***************************************************************************)
ClaudeMessage(type, sid, hasMessage, content) ==
  [Type |-> type, SessionID |-> sid, HasMessage |-> hasMessage,
   Content |-> content]

ZeroMessage == ClaudeMessage("", "", FALSE, OtherContent)

EvHello == ClaudeMessage("assistant", "s2", TRUE,
                         StrContent(<<"a", " ", "b">>))
EvBlocks == ClaudeMessage("assistant", "", TRUE,
              BlockContent(<<ToolUseBlock, TextBlock(<<" ">>),
                             TextBlock(<<"x">>)>>))
EvQuiet == ClaudeMessage("assistant", "s1", TRUE,
                         BlockContent(<<ToolUseBlock>>))
EvResult == ClaudeMessage("result", "s1", FALSE, OtherContent)

(***************************************************************************)
(* Lines of standard output.  kind: "blank" (the empty line), "garbage"    *)
(* (not JSON, or JSON of the wrong shape), "json" (an object that decodes  *)
(* into msg).  long: the line is longer than bufio.MaxScanTokenSize, the   *)
(* limit of the bufio.Scanner that bufio.NewScanner returns.               *)
(***************************************************************************)
Line(kind, long, msg) == [kind |-> kind, long |-> long, msg |-> msg]

BlankLine == Line("blank", FALSE, ZeroMessage)
GarbageLine == Line("garbage", FALSE, ZeroMessage)
LongGarbageLine == Line("garbage", TRUE, ZeroMessage)
JsonLine(msg) == Line("json", FALSE, msg)

Lines ==
  {BlankLine, GarbageLine, LongGarbageLine} \cup
  {JsonLine(m) : m \in {EvHello, EvBlocks, EvQuiet, EvResult}}

\* json.Unmarshal([]byte(line), &msg): err == nil
DecodeOk(line) == line.kind = "json"

\* the decoded msg
Decode(line) == line.msg

\* scanner.Scan() on a next line: false (bufio.ErrTooLong) when the line
\* does not fit the scanner's buffer.
ScanFits(line) == ~line.long


(***************************************************************************)
(* The wire format: streaming.Converter and the frames it produces.        *)
(***************************************************************************)
\* uuid.New(), drawn from a small set.
UUIDs == {"u1", "u2"}

\* time.Now().Unix() when uuid is drawn: a later identifier, a later time.
Now(uuid) == IF uuid = "u1" THEN 1 ELSE 2

\* req.Model (claudeModel), passed through unchanged.
ReqModel == "claude-sonnet"

\* streaming.NewConverter
NewConverter(model, sessionID, uuid, now) ==
  [Model |-> model, SessionID |-> sessionID, CompletionID |-> uuid,
   Created |-> now]

NoConverter == NewConverter("", "", "", 0)

Frame(frame, c, role, content, finish) ==
  [frame |-> frame, ID |-> c.CompletionID, Created |-> c.Created,
   Model |-> c.Model, Role |-> role, Content |-> content,
   FinishReason |-> finish]

\* Converter.CreateInitialChunk
CreateInitialChunk(c) == Frame("chunk", c, "assistant", NoText, "nil")

\* A content chunk that repeats the role marker.
CreateContentChunkWithRole(c, content) ==
  Frame("chunk", c, "assistant", content, "nil")

\* Converter.CreateContentChunk
CreateContentChunk(c, content) == Frame("chunk", c, "", content, "nil")

\* A final chunk stamped with the time of its own creation.
CreateFinalChunkFresh(c) ==
  Frame("chunk", [c EXCEPT !.Created = c.Created + 1], "", NoText, "stop")

\* Converter.CreateFinalChunk
CreateFinalChunk(c) == Frame("chunk", c, "", NoText, "stop")

\* SSEFormatter.FormatDone: the literal "data: [DONE]" frame.
FormatDone == Frame("done", NoConverter, "", NoText, "nil")

\* A plausible slip: a content chunk is written for every assistant message,
\* also when nothing was extracted from it.
StreamEmitAlways(c, msg) ==
  IF msg.Type = "assistant" /\ msg.HasMessage
  THEN <<CreateContentChunk(c, ExtractTextContent(msg.Content))>>
  ELSE << >>

\* handleStreamingResponse, the body of the loop: the frames written for msg.
StreamEmit(c, msg) ==
  IF msg.Type = "assistant" /\ msg.HasMessage
     /\ ExtractTextContent(msg.Content) # NoText
  THEN <<CreateContentChunk(c, ExtractTextContent(msg.Content))>>
  ELSE << >>

\* The body of the loop with the whole-message rule in the place of
\* streaming.ExtractTextContent.
BufferAppendWhole(parts, msg) ==
  IF msg.Type = "assistant" /\ msg.HasMessage
     /\ GetTextContent(msg.Content) # NoText
  THEN Append(parts, GetTextContent(msg.Content))
  ELSE parts

\* handleNonStreamingResponse, the body of the loop: contentParts after msg.
BufferAppend(parts, msg) ==
  IF msg.Type = "assistant" /\ msg.HasMessage
     /\ ExtractTextContent(msg.Content) # NoText
  THEN Append(parts, ExtractTextContent(msg.Content))
  ELSE parts

\* "Hello! I'm Claude, ready to help."
FallbackText ==
  <<"H","e","l","l","o","!"," ","I","'","m"," ","C","l","a","u","d","e",",",
    " ","r","e","a","d","y"," ","t","o"," ","h","e","l","p",".">>

\* A plausible slip: the fallback is never substituted.
CompleteContentNoFallback(parts) == Join(parts, NL)

\* completeContent of handleNonStreamingResponse
CompleteContent(parts) ==
  IF Join(parts, NL) = NoText THEN FallbackText ELSE Join(parts, NL)

\* A plausible slip: the length of the text instead of its number of fields.
WordCountLen(text) == Len(text)

\* wordCount := len(strings.Fields(completeContent))
WordCount(text) == FieldsLen(text)

\* A plausible slip: the total leaves out the prompt tokens.
UsageNoPrompt(wordCount) ==
  [PromptTokens |-> 10, CompletionTokens |-> wordCount,
   TotalTokens |-> wordCount]

\* models.ChatCompletionUsage of handleNonStreamingResponse
Usage(wordCount) ==
  [PromptTokens |-> 10, CompletionTokens |-> wordCount,
   TotalTokens |-> 10 + wordCount]

NoUsage == [PromptTokens |-> 0, CompletionTokens |-> 0, TotalTokens |-> 0]

\* What c.JSON writes: nothing yet, a completion, or an error.
NoResponse ==
  [status |-> 0, kind |-> "none", ID |-> "", Content |-> NoText,
   Usage |-> NoUsage, SessionID |-> "", Code |-> ""]

\* models.ChatCompletionResponse, http.StatusOK
CompletionResponse(uuid, text, sid) ==
  [status |-> 200, kind |-> "chat.completion", ID |-> uuid, Content |-> text,
   Usage |-> Usage(WordCount(text)), SessionID |-> sid, Code |-> ""]

\* models.ErrorResponse, http.StatusServiceUnavailable
UnavailableResponse ==
  [status |-> 503, kind |-> "service_unavailable", ID |-> "",
   Content |-> NoText, Usage |-> NoUsage, SessionID |-> "",
   Code |-> "claude_unavailable"]

(***************************************************************************)
(* The pieces of the process manager that the actions share.               *)
(***************************************************************************)
\* A plausible slip: an off-by-one in the capacity gate.
AtCapacityStrict(n, max) == n > max

\* Manager.CreateSession: len(m.processes) >= m.cfg.MaxConcurrentSessions
AtCapacity(n, max) == n >= max

\* A plausible slip: the guard p.SessionID == "" is missing.
AdoptLatest(cur, msg) == IF msg.SessionID # "" THEN msg.SessionID ELSE cur

\* "Extract session ID from first message": p.SessionID after decoding msg.
AdoptSessionID(cur, msg) ==
  IF cur = "" /\ msg.SessionID # "" THEN msg.SessionID ELSE cur

\* p.Output <- msg, the channel's buffer after a send that did not block.
ChanSend(q, msg) == Append(q, msg)

\* config.Config: MAX_CONCURRENT_SESSIONS default:"10"
DefaultMaxConcurrentSessions == 10

(***************************************************************************)
(* Process.Start, the command it builds.  A Go string is a TLA+ string     *)
(* here: the arguments are passed on whole.                                *)
(***************************************************************************)
\* "--output-format", "stream-json", "--verbose",
\* "--dangerously-skip-permissions"
OutputModeFlags ==
  <<"--output-format", "stream-json", "--verbose",
    "--dangerously-skip-permissions">>

\* The arguments with the model flag appended also for the empty model.
ArgsAlwaysModel(prompt, systemPrompt, model) ==
  <<"-p", prompt>>
  \o (IF systemPrompt # "" THEN <<"--system-prompt", systemPrompt>>
      ELSE << >>)
  \o <<"--model", model>>
  \o OutputModeFlags

\* Process.Start: args
Args(prompt, systemPrompt, model) ==
  <<"-p", prompt>>
  \o (IF systemPrompt # "" THEN <<"--system-prompt", systemPrompt>>
      ELSE << >>)
  \o (IF model # "" THEN <<"--model", model>> ELSE << >>)
  \o OutputModeFlags

\* What Start was called with (ProjectPath is the handle's), and the
\* command it built: p.cmd's arguments and p.cmd.Dir.
Command(path, prompt, systemPrompt, model, built, args, dir) ==
  [ProjectPath |-> path, prompt |-> prompt, systemPrompt |-> systemPrompt,
   model |-> model, built |-> built, args |-> args, Dir |-> dir]

NoCommand == Command("", "", "", "", FALSE, << >>, "")

(***************************************************************************)
(* SpecExtract applies the two extraction functions to a content value.    *)
(* extract holds the value, and each function's result once it was called. *)
(***************************************************************************)
Extraction(content, singleDone, single, wholeDone, whole) ==
  [content |-> content, singleDone |-> singleDone, single |-> single,
   wholeDone |-> wholeDone, whole |-> whole]

NoExtract == Extraction(OtherContent, FALSE, NoText, FALSE, NoText)

(***************************************************************************)
(* Process.Start, as far as its outcome goes.  failAt is the call of Start *)
(* that returns an error: "stdout" (cmd.StdoutPipe), "stderr"              *)
(* (cmd.StderrPipe), "start" (cmd.Start), or "none".  The record holds     *)
(* what Start leaves behind: p.cmd is set, cmd.Start was called (calls),   *)
(* IsRunning, whether Output was made, and the goroutines started (flows). *)
(***************************************************************************)
StartFailures == {"stdout", "stderr", "start"}

\* &Process{...} before Start: the zero values.
NoLaunch ==
  [calls |-> 0, failedAt |-> "", cmd |-> FALSE, IsRunning |-> FALSE,
   made |-> FALSE, flows |-> {}]

\* Start with IsRunning set before cmd.Start is called.
StartFlagFirst(p, failAt) ==
  [calls |-> p.calls + 1, failedAt |-> failAt, cmd |-> TRUE,
   IsRunning |-> failAt \in {"none", "start"},
   made |-> failAt = "none",
   flows |-> IF failAt = "none" THEN {"stdout", "stderr", "wait"} ELSE {}]

\* Process.Start
Start(p, failAt) ==
  [calls |-> p.calls + 1, failedAt |-> failAt, cmd |-> TRUE,
   IsRunning |-> failAt = "none",
   made |-> failAt = "none",
   flows |-> IF failAt = "none" THEN {"stdout", "stderr", "wait"} ELSE {}]

(***************************************************************************)
(* State.                                                                  *)
(***************************************************************************)
VARIABLES
  MaxConcurrentSessions, \* cfg.MaxConcurrentSessions
  processes,             \* Manager.processes, the registry (its keys)
  gpc,                   \* SpecGate: where each CreateSession call stands
  stream,                \* req.Stream
  hpc,                   \* HandleChatCompletion: where the handler stands
  ctx,                   \* the request's context: "live" or "done"
  sessionID,             \* the handler's local sessionID
  converter,             \* the streaming.Converter of the response
  emitted,               \* the frames written to the client, in order
  contentParts,          \* handleNonStreamingResponse: contentParts
  response,              \* the body c.JSON wrote
  received,              \* the messages the handler took from Output, in order
  proc,                  \* the subprocess: "none", "running", "exited"
  written,               \* the lines the subprocess wrote to stdout, in order
  nread,                 \* how many of them the scanner has taken
  waited,                \* cmd.Wait returned: the pipes are closed
  ppc,                   \* the stdout goroutine: where it stands
  pmsg,                  \* the msg it holds while sending
  Output,                \* Process.Output: the channel's buffer
  closed,                \* Process.Output is closed
  SessionID,             \* Process.SessionID
  IsRunning,             \* Process.IsRunning
  launch,                \* what Process.Start did: see Start
  extract,               \* SpecExtract: a content value and its extractions
  version,               \* Manager.version
  versionOnce,           \* Manager.versionOnce: "new", "running", "done"
  vcalls,                \* SpecVersion: where each GetVersion call stands
  probes,                \* how many times "claude --version" was run
  cmdline                \* SpecArgs: Start's arguments and the command built

managerVars == <<MaxConcurrentSessions, processes, version, versionOnce>>
probeVars == <<vcalls, probes>>
handlerVars == <<stream, hpc, ctx, sessionID, converter, emitted,
                 contentParts, response, received>>
processVars == <<proc, written, nread, waited, ppc, pmsg, Output, closed,
                 SessionID, IsRunning>>
vars == <<managerVars, probeVars, cmdline, gpc, handlerVars, processVars,
          launch, extract>>

\* claude.NewManager and a request that reached CreateSession; no Process yet.
InitRequest ==
  /\ processes = {}
  /\ version = NoText
  /\ versionOnce = "new"
  /\ probes = 0
  /\ hpc = "create"
  /\ ctx = "live"
  /\ sessionID = ""
  /\ converter = NoConverter
  /\ emitted = << >>
  /\ contentParts = << >>
  /\ response = NoResponse
  /\ received = << >>
  /\ proc = "none"
  /\ written = << >>
  /\ nread = 0
  /\ waited = FALSE
  /\ ppc = "none"
  /\ pmsg = ZeroMessage
  /\ Output = << >>
  /\ closed = FALSE
  /\ SessionID = ""
  /\ IsRunning = FALSE
  /\ launch = NoLaunch

Init ==
  /\ InitRequest
  /\ extract = NoExtract
  /\ cmdline = NoCommand
  /\ MaxConcurrentSessions \in {0, DefaultMaxConcurrentSessions}
  /\ stream \in BOOLEAN
  /\ gpc = << >>
  /\ vcalls = << >>

(***************************************************************************)
(* Manager.CreateSession and Process.Start, called by HandleChatCompletion.*)
(***************************************************************************)
\* A return that leaves the request's context as it is (no "defer cancel()").
HandlerReturnNoCancel ==
  /\ hpc' = "done"
  /\ ctx' = ctx

\* The handler's return: "defer cancel()" cancels the request's context.
HandlerReturn ==
  /\ hpc' = "done"
  /\ ctx' = "done"

\* CreateSession finds the registry at the ceiling: the capacity error, and
\* the handler answers 503.
CreateSessionReject ==
  /\ hpc = "create"
  /\ AtCapacity(Cardinality(processes), MaxConcurrentSessions)
  /\ response' = UnavailableResponse
  /\ HandlerReturn
  /\ UNCHANGED <<managerVars, probeVars, cmdline, gpc, launch, extract,
                 stream, sessionID, converter, emitted,
                 contentParts, received, processVars>>

\* A handler that calls CreateSession again when Start has failed.
CreateSessionStartFailsRetry ==
  /\ hpc = "create"
  /\ ~AtCapacity(Cardinality(processes), MaxConcurrentSessions)
  /\ \E failAt \in StartFailures : launch' = Start(launch, failAt)
  /\ IsRunning' = launch'.IsRunning
  /\ UNCHANGED <<managerVars, probeVars, cmdline, gpc, extract, handlerVars, proc, written, nread,
                 waited, ppc, pmsg, Output, closed, SessionID>>

\* Start fails (StdoutPipe, StderrPipe or cmd.Start): the launch error, and
\* the handler answers 503.
CreateSessionStartFails ==
  /\ hpc = "create"
  /\ ~AtCapacity(Cardinality(processes), MaxConcurrentSessions)
  /\ \E failAt \in StartFailures : launch' = Start(launch, failAt)
  /\ IsRunning' = launch'.IsRunning
  /\ response' = UnavailableResponse
  /\ HandlerReturn
  /\ UNCHANGED <<managerVars, probeVars, cmdline, gpc, extract, stream, sessionID, converter,
                 emitted, contentParts, received, proc, written, nread,
                 waited, ppc, pmsg, Output, closed, SessionID>>

\* Start succeeds: the subprocess runs, IsRunning is set, Output is made and
\* the goroutines are started.  The Process is not stored in the registry.
CreateSessionStarts ==
  /\ hpc = "create"
  /\ ~AtCapacity(Cardinality(processes), MaxConcurrentSessions)
  /\ launch' = Start(launch, "none")
  /\ proc' = "running"
  /\ IsRunning' = launch'.IsRunning
  /\ Output' = << >>
  /\ ppc' = "scan"
  /\ hpc' = "begin"
  /\ UNCHANGED <<managerVars, probeVars, cmdline, gpc, extract, stream, ctx, sessionID, converter, emitted,
                 contentParts, response, received, written, nread, waited,
                 pmsg, closed, SessionID>>

(***************************************************************************)
(* The subprocess and the request's context.                               *)
(***************************************************************************)
\* The subprocess writes one more line to its standard output.
SubprocessWrites ==
  /\ proc = "running"
  /\ Len(written) < MaxLines
  /\ \E line \in Lines : written' = Append(written, line)
  /\ UNCHANGED <<managerVars, probeVars, cmdline, gpc, launch, extract,
                 handlerVars, proc, nread, waited, ppc,
                 pmsg, Output, closed, SessionID, IsRunning>>

\* The subprocess exits by itself.
SubprocessExits ==
  /\ proc = "running"
  /\ proc' = "exited"
  /\ UNCHANGED <<managerVars, probeVars, cmdline, gpc, launch, extract,
                 handlerVars, written, nread, waited, ppc,
                 pmsg, Output, closed, SessionID, IsRunning>>

\* context.WithTimeout: the deadline passes (or the client's request context
\* ends) while the handler is at work.
ContextExpires ==
  /\ hpc \notin {"create", "done"}
  /\ ctx = "live"
  /\ ctx' = "done"
  /\ UNCHANGED <<managerVars, probeVars, cmdline, gpc, launch, extract,
                 stream, hpc, sessionID, converter, emitted,
                 contentParts, response, received, processVars>>

\* exec.CommandContext: the subprocess is killed once the context is done.
ContextKills ==
  /\ ctx = "done"
  /\ proc = "running"
  /\ proc' = "exited"
  /\ UNCHANGED <<managerVars, probeVars, cmdline, gpc, launch, extract,
                 handlerVars, written, nread, waited, ppc,
                 pmsg, Output, closed, SessionID, IsRunning>>

\* A wait goroutine that clears IsRunning when cmd.Wait returns.
WaitReturnsClearsRunning ==
  /\ proc = "exited"
  /\ ~waited
  /\ waited' = TRUE
  /\ IsRunning' = FALSE
  /\ UNCHANGED <<managerVars, probeVars, cmdline, gpc, launch, extract,
                 handlerVars, proc, written, nread, ppc,
                 pmsg, Output, closed, SessionID>>

\* The "Wait for completion" goroutine: cmd.Wait returns after the subprocess
\* has exited, and closes the read ends of its pipes.
WaitReturns ==
  /\ proc = "exited"
  /\ ~waited
  /\ waited' = TRUE
  /\ UNCHANGED <<managerVars, probeVars, cmdline, gpc, launch, extract,
                 handlerVars, proc, written, nread, ppc,
                 pmsg, Output, closed, SessionID, IsRunning>>

(***************************************************************************)
(* The "Read stdout JSONL" goroutine.                                      *)
(***************************************************************************)
\* scanner.Scan() returns a line: the next line is in the pipe, the pipe is
\* still open and the line fits the scanner's buffer.
ScanHasLine ==
  /\ ~waited
  /\ nread < Len(written)
  /\ ScanFits(written[nread + 1])

\* scanner.Scan() returns false: end of file (the subprocess has exited and
\* the pipe is drained), a read error (cmd.Wait closed the pipe), or a line
\* too long for the scanner.
ScanEnds ==
  \/ waited
  \/ nread = Len(written) /\ proc = "exited"
  \/ nread < Len(written) /\ ~ScanFits(written[nread + 1])

\* One turn of the loop up to the send: the blank line and the line that does
\* not decode are skipped; a decoded msg may set p.SessionID and is then sent.
ParserScans ==
  /\ ppc = "scan"
  /\ ScanHasLine
  /\ nread' = nread + 1
  /\ LET line == written[nread + 1] IN
       IF line.kind = "blank" \/ ~DecodeOk(line)
       THEN UNCHANGED <<ppc, pmsg, SessionID>>
       ELSE /\ SessionID' = AdoptSessionID(SessionID, Decode(line))
            /\ pmsg' = Decode(line)
            /\ ppc' = "send"
  /\ UNCHANGED <<managerVars, probeVars, cmdline, gpc, launch, extract,
                 handlerVars, proc, written, waited, Output,
                 closed, IsRunning>>

\* A send that does not block (select with a default case): the message is
\* dropped when the channel is full.
ParserSendsLossy ==
  /\ ppc = "send"
  /\ Output' = IF Len(Output) < OutputCap THEN ChanSend(Output, pmsg)
               ELSE Output
  /\ ppc' = "scan"
  /\ UNCHANGED <<managerVars, probeVars, cmdline, gpc, launch, extract,
                 handlerVars, proc, written, nread, waited,
                 pmsg, closed, SessionID, IsRunning>>

\* A send onto a queue that grows without a limit.
ParserSendsUnbounded ==
  /\ ppc = "send"
  /\ Output' = ChanSend(Output, pmsg)
  /\ ppc' = "scan"
  /\ UNCHANGED <<managerVars, probeVars, cmdline, gpc, launch, extract,
                 handlerVars, proc, written, nread, waited,
                 pmsg, closed, SessionID, IsRunning>>

\* p.Output <- msg, which blocks while the channel is full.
ParserSends ==
  /\ ppc = "send"
  /\ Len(Output) < OutputCap
  /\ Output' = ChanSend(Output, pmsg)
  /\ ppc' = "scan"
  /\ UNCHANGED <<managerVars, probeVars, cmdline, gpc, launch, extract,
                 handlerVars, proc, written, nread, waited,
                 pmsg, closed, SessionID, IsRunning>>

\* The loop ends.
ParserLoopEnds ==
  /\ ppc = "scan"
  /\ ScanEnds
  /\ ppc' = "unlock"
  /\ UNCHANGED <<managerVars, probeVars, cmdline, gpc, launch, extract,
                 handlerVars, proc, written, nread, waited,
                 pmsg, Output, closed, SessionID, IsRunning>>

\* p.mu.Lock(); p.IsRunning = false; p.mu.Unlock()
ParserClearsRunning ==
  /\ ppc = "unlock"
  /\ IsRunning' = FALSE
  /\ ppc' = "close"
  /\ UNCHANGED <<managerVars, probeVars, cmdline, gpc, launch, extract,
                 handlerVars, proc, written, nread, waited,
                 pmsg, Output, closed, SessionID>>

\* defer close(p.Output)
ParserCloses ==
  /\ ppc = "close"
  /\ closed' = TRUE
  /\ ppc' = "done"
  /\ UNCHANGED <<managerVars, probeVars, cmdline, gpc, launch, extract,
                 handlerVars, proc, written, nread, waited,
                 pmsg, Output, SessionID, IsRunning>>

(***************************************************************************)
(* HandleChatCompletion after CreateSession returned a Process.            *)
(***************************************************************************)
\* uuid.New().String() for a session the Process has not named yet.
GeneratedSessionIDs == {"g1"}

\* A string header whose data pointer and length belong to different values:
\* what a read of p.SessionID can see while the stdout goroutine stores it.
TornSessionID == "torn"

\* The stdout goroutine is in the turn of its loop that assigns p.SessionID:
\* it has a line to scan whose msg names the session and none is adopted yet.
AdoptionInFlight ==
  /\ ppc = "scan"
  /\ ScanHasLine
  /\ DecodeOk(written[nread + 1])
  /\ AdoptSessionID(SessionID, Decode(written[nread + 1])) # SessionID

\* proc.SessionID read without p.mu or any other ordering with the stdout
\* goroutine's assignment: the value before or after it (by interleaving),
\* or a torn one when the assignment is in flight.
ReadSessionID ==
  {SessionID} \cup (IF AdoptionInFlight THEN {TornSessionID} ELSE {})

\* sessionID := proc.SessionID, or a fresh one; then, for a streamed
\* response, the headers, the converter and the initial chunk.
HandlerBegins ==
  /\ hpc = "begin"
  /\ \E read \in ReadSessionID, gen \in GeneratedSessionIDs, uuid \in UUIDs :
       LET sid == IF read = "" THEN gen ELSE read IN
         /\ sessionID' = sid
         /\ IF stream
            THEN /\ converter' = NewConverter(ReqModel, sid, uuid, Now(uuid))
                 /\ emitted' = <<CreateInitialChunk(converter')>>
                 /\ hpc' = "stream_loop"
            ELSE /\ hpc' = "buffer_loop"
                 /\ UNCHANGED <<converter, emitted>>
  /\ UNCHANGED <<managerVars, probeVars, cmdline, gpc, launch, extract,
                 stream, ctx, contentParts, response,
                 received, processVars>>

\* The loop without the break on a result message.
StreamReceivesNoBreak ==
  /\ hpc = "stream_loop"
  /\ Output # << >>
  /\ LET msg == Head(Output) IN
       /\ Output' = Tail(Output)
       /\ received' = Append(received, msg)
       /\ emitted' = emitted \o StreamEmit(converter, msg)
  /\ UNCHANGED <<managerVars, probeVars, cmdline, gpc, launch, extract,
                 stream, hpc, ctx, sessionID, converter,
                 contentParts, response, proc, written, nread, waited, ppc,
                 pmsg, closed, SessionID, IsRunning>>

\* for msg := range proc.Output, streamed: one message is received, its
\* content chunk (if any) is written, and a result message breaks the loop.
StreamReceives ==
  /\ hpc = "stream_loop"
  /\ Output # << >>
  /\ LET msg == Head(Output) IN
       /\ Output' = Tail(Output)
       /\ received' = Append(received, msg)
       /\ emitted' = emitted \o StreamEmit(converter, msg)
       /\ hpc' = IF msg.Type = "result" THEN "stream_final" ELSE hpc
  /\ UNCHANGED <<managerVars, probeVars, cmdline, gpc, launch, extract,
                 stream, ctx, sessionID, converter,
                 contentParts, response, proc, written, nread, waited, ppc,
                 pmsg, closed, SessionID, IsRunning>>

\* The handler returns at once when Output is closed, with no final chunk.
StreamSeesCloseAbrupt ==
  /\ hpc = "stream_loop"
  /\ Output = << >>
  /\ closed
  /\ HandlerReturn
  /\ UNCHANGED <<managerVars, probeVars, cmdline, gpc, launch, extract,
                 stream, sessionID, converter, emitted,
                 contentParts, response, received, processVars>>

\* The range loop ends: Output is closed and empty.
StreamSeesClose ==
  /\ hpc = "stream_loop"
  /\ Output = << >>
  /\ closed
  /\ hpc' = "stream_final"
  /\ UNCHANGED <<managerVars, probeVars, cmdline, gpc, launch, extract,
                 stream, ctx, sessionID, converter, emitted,
                 contentParts, response, received, processVars>>

\* "Send final chunk and done", and the handler returns.
StreamFinishes ==
  /\ hpc = "stream_final"
  /\ emitted' = emitted \o <<CreateFinalChunk(converter), FormatDone>>
  /\ HandlerReturn
  /\ UNCHANGED <<managerVars, probeVars, cmdline, gpc, launch, extract,
                 stream, sessionID, converter,
                 contentParts, response, received, processVars>>

\* for msg := range proc.Output, buffered: one message is received, its text
\* (if any) is appended to contentParts, and a result message breaks the loop.
BufferReceives ==
  /\ hpc = "buffer_loop"
  /\ Output # << >>
  /\ LET msg == Head(Output) IN
       /\ Output' = Tail(Output)
       /\ received' = Append(received, msg)
       /\ contentParts' = BufferAppend(contentParts, msg)
       /\ hpc' = IF msg.Type = "result" THEN "buffer_respond" ELSE hpc
  /\ UNCHANGED <<managerVars, probeVars, cmdline, gpc, launch, extract,
                 stream, ctx, sessionID, converter, emitted,
                 response, proc, written, nread, waited, ppc, pmsg, closed,
                 SessionID, IsRunning>>

\* The range loop ends: Output is closed and empty.
BufferSeesClose ==
  /\ hpc = "buffer_loop"
  /\ Output = << >>
  /\ closed
  /\ hpc' = "buffer_respond"
  /\ UNCHANGED <<managerVars, probeVars, cmdline, gpc, launch, extract,
                 stream, ctx, sessionID, converter, emitted,
                 contentParts, response, received, processVars>>

\* The completion is built and written with c.JSON(http.StatusOK, response),
\* and the handler returns.
BufferResponds ==
  /\ hpc = "buffer_respond"
  /\ \E uuid \in UUIDs :
       response' = CompletionResponse(uuid, CompleteContent(contentParts),
                                      sessionID)
  /\ HandlerReturn
  /\ UNCHANGED <<managerVars, probeVars, cmdline, gpc, launch, extract,
                 stream, sessionID, converter, emitted,
                 contentParts, received, processVars>>

Next ==
  \/ CreateSessionReject
  \/ CreateSessionStartFails
  \/ CreateSessionStarts
  \/ SubprocessWrites
  \/ SubprocessExits
  \/ ContextKills
  \/ WaitReturns
  \/ ParserScans
  \/ ParserSends
  \/ ParserLoopEnds
  \/ ParserClearsRunning
  \/ ParserCloses
  \/ HandlerBegins
  \/ StreamReceives
  \/ StreamSeesClose
  \/ StreamFinishes
  \/ BufferReceives
  \/ BufferSeesClose
  \/ BufferResponds

\* One request.  The deadline is left to SpecDeadline: all it does to the
\* subprocess is end it, which SubprocessExits does here at any time.
Spec == Init /\ [][Next]_vars

\* One request whose deadline may pass while the handler is at work.
NextDeadline == Next \/ ContextExpires

\* The steps of the stdout goroutine.
ParserStep ==
  \/ ParserScans
  \/ ParserSends
  \/ ParserLoopEnds
  \/ ParserClearsRunning
  \/ ParserCloses

\* The steps of the handler's goroutine.
HandlerStep ==
  \/ CreateSessionReject
  \/ CreateSessionStartFails
  \/ CreateSessionStarts
  \/ HandlerBegins
  \/ StreamReceives
  \/ StreamSeesClose
  \/ StreamFinishes
  \/ BufferReceives
  \/ BufferSeesClose
  \/ BufferResponds

\* The steps of os/exec's goroutines: the kill once the context is done, and
\* the wait goroutine's cmd.Wait.
RuntimeStep == ContextKills \/ WaitReturns

\* The Go scheduler runs each goroutine that can take a step.  Nothing is
\* assumed of the subprocess: it may write, exit, or do neither.
SpecDeadline ==
  /\ Init
  /\ [][NextDeadline]_vars
  /\ WF_vars(ParserStep)
  /\ WF_vars(HandlerStep)
  /\ WF_vars(RuntimeStep)

\* A request without a deadline passing: the handler's own "defer cancel()"
\* is the only end of its context.  Of the scheduler only this much is
\* assumed: os/exec's goroutines run when they can (the one watching the
\* context kills the subprocess once the context is done).
SpecReturn ==
  /\ Init
  /\ [][Next]_vars
  /\ WF_vars(RuntimeStep)

(***************************************************************************)
(* SpecGate: Manager.CreateSession called by NumCalls requests at once.    *)
(* gpc[c] is "idle" (not yet at the gate), "admitted" (past the gate, the  *)
(* manager's lock released, Start not yet returned), "running" (Start      *)
(* succeeded: a subprocess of this call is in flight), "failed" (the       *)
(* launch error), "rejected" (the capacity error) or "finished" (the       *)
(* request is over and its subprocess gone).                               *)
(***************************************************************************)
Calls == 1..NumCalls

InitGate ==
  /\ InitRequest
  /\ MaxConcurrentSessions \in 0..MaxCeiling
  /\ stream = FALSE
  /\ gpc = [c \in Calls |-> "idle"]
  /\ vcalls = << >>
  /\ extract = NoExtract
  /\ cmdline = NoCommand

\* Manager.ActiveSessionCount
ActiveSessionCount == Cardinality(processes)

\* The calls whose subprocess is in flight.
InFlight == {c \in Calls : gpc[c] = "running"}

GateStep(c, to) ==
  /\ gpc' = [gpc EXCEPT ![c] = to]
  /\ UNCHANGED <<managerVars, probeVars, cmdline, handlerVars, processVars, launch,
                 extract>>

\* m.mu.Lock(); the registry is at the ceiling; m.mu.Unlock(); return nil, err
GateRejects(c) ==
  /\ gpc[c] = "idle"
  /\ AtCapacity(Cardinality(processes), MaxConcurrentSessions)
  /\ GateStep(c, "rejected")

\* m.mu.Lock(); the registry is under the ceiling; m.mu.Unlock()
GateAdmits(c) ==
  /\ gpc[c] = "idle"
  /\ ~AtCapacity(Cardinality(processes), MaxConcurrentSessions)
  /\ GateStep(c, "admitted")

\* proc.Start succeeds and the Process is stored in the registry.
GateStartSucceedsStores(c) ==
  /\ gpc[c] = "admitted"
  /\ gpc' = [gpc EXCEPT ![c] = "running"]
  /\ processes' = processes \cup {c}
  /\ UNCHANGED <<MaxConcurrentSessions, version, versionOnce, probeVars,
                 cmdline, handlerVars, processVars, launch, extract>>

\* proc.Start succeeds; the Process is returned and not stored.
GateStartSucceeds(c) ==
  /\ gpc[c] = "admitted"
  /\ GateStep(c, "running")

\* proc.Start fails.
GateStartFails(c) ==
  /\ gpc[c] = "admitted"
  /\ GateStep(c, "failed")

\* The request is over and its subprocess has gone.
GateRequestEnds(c) ==
  /\ gpc[c] = "running"
  /\ GateStep(c, "finished")

\* Manager.CleanupAll: every stored Process is stopped and deleted.
CleanupAll ==
  /\ processes' = {}
  /\ gpc' = [c \in Calls |->
               IF c \in processes /\ gpc[c] = "running" THEN "finished"
               ELSE gpc[c]]
  /\ UNCHANGED <<MaxConcurrentSessions, version, versionOnce, probeVars,
                 cmdline, handlerVars, processVars, launch, extract>>

NextGate ==
  \/ \E c \in Calls : GateRejects(c)
  \/ \E c \in Calls : GateAdmits(c)
  \/ \E c \in Calls : GateStartSucceeds(c)
  \/ \E c \in Calls : GateStartFails(c)
  \/ \E c \in Calls : GateRequestEnds(c)
  \/ CleanupAll

SpecGate == InitGate /\ [][NextGate]_vars

(***************************************************************************)
(* SpecStop: one request, and a holder of the handle who calls             *)
(* Process.Stop at any time, any number of times.  proc = "killed": the    *)
(* kill signal was sent and the subprocess has not exited yet.             *)
(***************************************************************************)
\* p.cmd != nil && p.cmd.Process != nil: cmd.Start has succeeded.
HasProcess == launch.cmd /\ launch.failedAt = "none"

\* A Stop that also closes the Output channel.
StopAndClose ==
  /\ proc' = IF HasProcess /\ proc = "running" THEN "killed" ELSE proc
  /\ IsRunning' = FALSE
  /\ closed' = TRUE
  /\ UNCHANGED <<managerVars, probeVars, cmdline, gpc, launch, extract, handlerVars, written,
                 nread, waited, ppc, pmsg, Output, SessionID>>

\* Process.Stop.  Kill on a process that has exited returns an error, which
\* Stop discards.
Stop ==
  /\ proc' = IF HasProcess /\ proc = "running" THEN "killed" ELSE proc
  /\ IsRunning' = FALSE
  /\ UNCHANGED <<managerVars, probeVars, cmdline, gpc, launch, extract, handlerVars, written,
                 nread, waited, ppc, pmsg, Output, closed, SessionID>>

\* The killed subprocess exits.
KillTakesEffect ==
  /\ proc = "killed"
  /\ proc' = "exited"
  /\ UNCHANGED <<managerVars, probeVars, cmdline, gpc, launch, extract, handlerVars, written,
                 nread, waited, ppc, pmsg, Output, closed, SessionID,
                 IsRunning>>

NextStop == Next \/ Stop \/ KillTakesEffect

SpecStop == Init /\ [][NextStop]_vars

(***************************************************************************)
(* SpecVersion: Manager.GetVersion called NumVersionCalls times, by the    *)
(* start-up code, the health handler and the models handler, at any time.  *)
(* A call stands at "idle", "probe" (it runs the function of               *)
(* versionOnce.Do), "after" (Do has returned) or "returned".               *)
(***************************************************************************)
VersionCalls == 1..NumVersionCalls

\* strings.TrimSpace
RECURSIVE TrimSpace(_)
TrimSpace(s) ==
  IF s = << >> THEN s
  ELSE IF IsSpace(Head(s)) THEN TrimSpace(Tail(s))
  ELSE IF IsSpace(s[Len(s)]) THEN TrimSpace(SubSeq(s, 1, Len(s) - 1))
  ELSE s

\* cmd.Output() of "claude --version": the output and whether err is nil.
ProbeResult(out, ok) == [out |-> out, ok |-> ok]

ProbeResults ==
  {ProbeResult(<<"1", "\n">>, TRUE), ProbeResult(<<" ", "2">>, TRUE),
   ProbeResult(<<"\n">>, TRUE), ProbeResult(<< >>, FALSE)}

\* A call: where it stands, its local err (nil or not), and what it returned.
VersionCall(pc, err, ret, retErr) ==
  [pc |-> pc, err |-> err, ret |-> ret, retErr |-> retErr]

NoVersionCall == VersionCall("idle", FALSE, NoText, FALSE)

InitVersion ==
  /\ InitRequest
  /\ MaxConcurrentSessions = DefaultMaxConcurrentSessions
  /\ stream = FALSE
  /\ gpc = << >>
  /\ extract = NoExtract
  /\ cmdline = NoCommand
  /\ vcalls = [c \in VersionCalls |-> NoVersionCall]

\* A check of m.version in the place of versionOnce.Do: every call that
\* finds no version yet runs the probe.
OnceBeginsUnguarded(c) ==
  /\ vcalls[c].pc = "idle"
  /\ version = NoText
  /\ versionOnce' = "running"
  /\ vcalls' = [vcalls EXCEPT ![c].pc = "probe"]
  /\ UNCHANGED <<MaxConcurrentSessions, processes, version, probes, gpc,
                 cmdline, handlerVars, processVars, launch, extract>>

\* m.versionOnce.Do(f), the first call: it runs f.
OnceBegins(c) ==
  /\ vcalls[c].pc = "idle"
  /\ versionOnce = "new"
  /\ versionOnce' = "running"
  /\ vcalls' = [vcalls EXCEPT ![c].pc = "probe"]
  /\ UNCHANGED <<MaxConcurrentSessions, processes, version, probes, gpc,
                 cmdline, handlerVars, processVars, launch, extract>>

\* f: the probe runs and returns; m.version is set when err is nil; Do
\* returns.
ProbeReturns(c) ==
  /\ vcalls[c].pc = "probe"
  /\ \E r \in ProbeResults :
       /\ version' = IF r.ok THEN TrimSpace(r.out) ELSE version
       /\ vcalls' = [vcalls EXCEPT ![c].pc = "after", ![c].err = ~r.ok]
  /\ probes' = probes + 1
  /\ versionOnce' = "done"
  /\ UNCHANGED <<MaxConcurrentSessions, processes, gpc, cmdline,
                 handlerVars, processVars, launch, extract>>

\* m.versionOnce.Do(f), a later call: it waits while f runs, and returns
\* without running it; its err is nil.
OnceSkips(c) ==
  /\ vcalls[c].pc = "idle"
  /\ versionOnce = "done"
  /\ vcalls' = [vcalls EXCEPT ![c].pc = "after"]
  /\ UNCHANGED <<managerVars, probes, gpc, cmdline, handlerVars,
                 processVars, launch, extract>>

\* if m.version == "" && err != nil { return "", err }; return m.version, nil
GetVersionReturn(v, err) ==
  IF v = NoText /\ err THEN [ret |-> NoText, retErr |-> TRUE]
  ELSE [ret |-> v, retErr |-> FALSE]

\* GetVersion returns.
VersionReturns(c) ==
  /\ vcalls[c].pc = "after"
  /\ LET r == GetVersionReturn(version, vcalls[c].err) IN
       vcalls' = [vcalls EXCEPT ![c].pc = "returned", ![c].ret = r.ret,
                                ![c].retErr = r.retErr]
  /\ UNCHANGED <<managerVars, probes, gpc, cmdline, handlerVars,
                 processVars, launch, extract>>

\* The health handler's answer to what GetVersion returned.
HealthStatus(call) == IF call.retErr THEN 503 ELSE 200

NextVersion ==
  \/ \E c \in VersionCalls : OnceBegins(c)
  \/ \E c \in VersionCalls : ProbeReturns(c)
  \/ \E c \in VersionCalls : OnceSkips(c)
  \/ \E c \in VersionCalls : VersionReturns(c)

SpecVersion == InitVersion /\ [][NextVersion]_vars

(***************************************************************************)
(* SpecArgs: Process.Start building its command, for a handle's project    *)
(* path and the prompt, system prompt and model it is called with.         *)
(***************************************************************************)
Prompts == {"", "hi there", "--model"}
SystemPrompts == {"", "be brief", "--verbose"}
ModelNames == {"", "claude-sonnet", "gpt-4", "no such model"}
ProjectPaths == {"", "/projects/default", "/projects/a b"}

InitArgs ==
  /\ InitRequest
  /\ MaxConcurrentSessions = DefaultMaxConcurrentSessions
  /\ stream = FALSE
  /\ gpc = << >>
  /\ vcalls = << >>
  /\ extract = NoExtract
  /\ \E path \in ProjectPaths, prompt \in Prompts,
        systemPrompt \in SystemPrompts, model \in ModelNames :
       cmdline = Command(path, prompt, systemPrompt, model, FALSE, << >>, "")

\* p.cmd = exec.CommandContext(ctx, cfg.ClaudeBinaryPath, args...);
\* p.cmd.Dir = p.ProjectPath
StartBuildsCommand ==
  /\ ~cmdline.built
  /\ cmdline' = [cmdline EXCEPT
                   !.built = TRUE,
                   !.args = Args(cmdline.prompt, cmdline.systemPrompt,
                                 cmdline.model),
                   !.Dir = cmdline.ProjectPath]
  /\ UNCHANGED <<managerVars, probeVars, gpc, handlerVars, processVars,
                 launch, extract>>

NextArgs == StartBuildsCommand

SpecArgs == InitArgs /\ [][NextArgs]_vars

(***************************************************************************)
(* SpecExtract: streaming.ExtractTextContent and GetTextContent applied to *)
(* one content value, drawn from the strings, the block sequences of at    *)
(* most MaxBlocks blocks, and the other JSON values.  An array item that   *)
(* is not an object acts as a block without members.                       *)
(***************************************************************************)
\* The "text" or "content" member of a block: absent, a string, or another
\* JSON value.
Member(kind, s) == [kind |-> kind, s |-> s]

TextMembers ==
  {Member("absent", NoText), Member("other", NoText),
   Member("string", <<"a">>), Member("string", <<"b">>)}

ContentMembers ==
  {Member("absent", NoText), Member("other", NoText),
   Member("string", <<"c">>)}

Blocks ==
  {Block(type, t.kind, t.s, c.kind, c.s) :
     type \in {"text", "tool_result"}, t \in TextMembers,
     c \in ContentMembers}

Contents ==
  {StrContent(NoText), StrContent(<<"a", "\n", "b">>), OtherContent} \cup
  {BlockContent(bs) : bs \in UNION {[1..n -> Blocks] : n \in 0..MaxBlocks}}

InitExtract ==
  /\ InitRequest
  /\ MaxConcurrentSessions = DefaultMaxConcurrentSessions
  /\ stream = FALSE
  /\ gpc = << >>
  /\ vcalls = << >>
  /\ \E content \in Contents :
       extract = Extraction(content, FALSE, NoText, FALSE, NoText)
  /\ cmdline = NoCommand

\* streaming.ExtractTextContent(content)
CallExtractTextContent ==
  /\ ~extract.singleDone
  /\ extract' = [extract EXCEPT !.singleDone = TRUE,
                                !.single = ExtractTextContent(extract.content)]
  /\ UNCHANGED <<managerVars, probeVars, cmdline, gpc, handlerVars, processVars, launch>>

\* m.GetTextContent()
CallGetTextContent ==
  /\ ~extract.wholeDone
  /\ extract' = [extract EXCEPT !.wholeDone = TRUE,
                                !.whole = GetTextContent(extract.content)]
  /\ UNCHANGED <<managerVars, probeVars, cmdline, gpc, handlerVars, processVars, launch>>

NextExtract == CallExtractTextContent \/ CallGetTextContent

SpecExtract == InitExtract /\ [][NextExtract]_vars

(***************************************************************************)
(* What the properties below speak of.                                     *)
(***************************************************************************)
\* The lines the scanner has handed to the loop so far.
Scanned == SubSeq(written, 1, nread)

\* A line that holds an event: not blank, and a JSON object of the shape.
HoldsEvent(line) == line.kind = "json"

\* The events of a sequence of lines, in the order of the lines.
EventsOf(lines) ==
  LET ev == SelectSeq(lines, HoldsEvent) IN [i \in 1..Len(ev) |-> ev[i].msg]

\* The message the parser has decoded and not yet sent.
InHand == IF ppc = "send" THEN <<pmsg>> ELSE << >>

IsPrefix(s, t) == Len(s) <= Len(t) /\ s = SubSeq(t, 1, Len(s))

\* An assistant message with text under the single-event rule.
HasText(msg) ==
  /\ msg.Type = "assistant"
  /\ msg.HasMessage
  /\ ExtractTextContent(msg.Content) # NoText

\* The texts of the assistant messages of evs that have one, in order.
TextsOf(evs) ==
  LET q == SelectSeq(evs, HasText)
  IN [i \in 1..Len(q) |-> ExtractTextContent(q[i].Content)]

\* evs ends with a result event and holds no other.
EndsWithOneResult(evs) ==
  /\ evs # << >>
  /\ \A i \in 1..Len(evs) : (evs[i].Type = "result") <=> (i = Len(evs))

\* The first non-empty session identifier among evs, "" if there is none.
FirstSessionID(evs) ==
  LET named == {i \in 1..Len(evs) : evs[i].SessionID # ""} IN
    IF named = {} THEN ""
    ELSE evs[CHOOSE i \in named : \A j \in named : i <= j].SessionID

Streamed == stream /\ hpc = "done" /\ response.kind = "none"
Completed == response.kind = "chat.completion"

(***************************************************************************)
(* C1.  A streamed response whose events end with the one result event is  *)
(* exactly: the initial chunk, one content chunk for each assistant event  *)
(* with non-empty single-event text, in arrival order, the final chunk,    *)
(* the done sentinel; and the sentinel is only ever the last frame of a    *)
(* handler that has returned.  While the handler is still reading, the     *)
(* frames written are the initial chunk and the content chunks of the      *)
(* events received so far.                                                 *)
(***************************************************************************)
C1_StreamedFrames ==
  /\ (Streamed /\ EndsWithOneResult(received)) =>
       emitted =
         <<CreateInitialChunk(converter)>>
         \o [i \in 1..Len(TextsOf(received)) |->
               CreateContentChunk(converter, TextsOf(received)[i])]
         \o <<CreateFinalChunk(converter), FormatDone>>
  /\ (stream /\ hpc \in {"stream_loop", "stream_final"}) =>
       emitted =
         <<CreateInitialChunk(converter)>>
         \o [i \in 1..Len(TextsOf(received)) |->
               CreateContentChunk(converter, TextsOf(received)[i])]
  /\ \A i \in 1..Len(emitted) :
       emitted[i] = FormatDone => (i = Len(emitted) /\ hpc = "done")

C1_Witness ==
  /\ Streamed
  /\ received = <<EvHello, EvQuiet, EvResult>>
  /\ Len(emitted) = 4

(***************************************************************************)
(* C2.  Output is closed only by the parser, at its very end, and only     *)
(* after the parser has exhausted standard output: the subprocess has      *)
(* exited (end of file) and every line it wrote has been scanned.          *)
(***************************************************************************)
C2_ClosedAfterExhausted ==
  closed => (ppc = "done" /\ proc = "exited" /\ nread = Len(written))

C4_BadLineSkipped ==
  [][(/\ ppc = "scan"
      /\ ~waited
      /\ nread < Len(written)
      /\ ~HoldsEvent(written[nread + 1])
      /\ <<ppc, nread>>' # <<ppc, nread>>)
     => (/\ nread' = nread + 1
         /\ ppc' = "scan"
         /\ Output' = Output
         /\ ~closed')]_vars

(***************************************************************************)
(* C5.  Process.SessionID is the session identifier of the first decoded   *)
(* event that carries a non-empty one, and empty before such an event:     *)
(* later identifiers never replace it.                                     *)
(***************************************************************************)
C5_SessionIdAdoptedOnce == SessionID = FirstSessionID(EventsOf(Scanned))

C5_Witness ==
  /\ EventsOf(Scanned) = <<EvBlocks, EvHello, EvResult>>
  /\ SessionID = "s2"

(***************************************************************************)
(* C6.  No more than the configured ceiling of subprocesses are in flight  *)
(* at once.                                                                *)
(***************************************************************************)
C6_CeilingBoundsInFlight == Cardinality(InFlight) <= MaxConcurrentSessions

(***************************************************************************)
(* C7.  A CreateSession call that finds the registry at or above the       *)
(* ceiling is rejected at once, and a rejected call stays rejected: it     *)
(* never goes on to Start.                                                 *)
(***************************************************************************)
C7_HardReject ==
  [][\A c \in Calls :
       /\ (/\ gpc[c] = "idle"
           /\ gpc'[c] # "idle"
           /\ Cardinality(processes) >= MaxConcurrentSessions)
          => gpc'[c] = "rejected"
       /\ gpc[c] = "rejected" => gpc'[c] = "rejected"]_vars

C7_Witness ==
  /\ gpc # << >>
  /\ \E c \in Calls : gpc[c] = "rejected"
  /\ \A c \in Calls : gpc[c] \in {"idle", "rejected"}

(***************************************************************************)
(* C8.  As claimed: the completion-token count is the number of fields of  *)
(* the newline-joined accumulated text, also when no text was accumulated. *)
(***************************************************************************)
C8_TokensOfJoinedText ==
  Completed =>
    response.Usage.CompletionTokens = FieldsLen(Join(TextsOf(received), NL))

(***************************************************************************)
(* C8, amended.  The completion-token count is the number of fields of the *)
(* text of the response: the newline-joined accumulated text, or the       *)
(* fallback string when that text is empty.                                *)
(***************************************************************************)
C8_TokensOfFinalText ==
  Completed =>
    response.Usage.CompletionTokens =
      FieldsLen(IF Join(TextsOf(received), NL) = NoText THEN FallbackText
                ELSE Join(TextsOf(received), NL))

C8_Witness ==
  /\ Completed
  /\ TextsOf(received) = << <<"a", " ", "b">>, <<" ">> >>
  /\ response.Usage.CompletionTokens = 2

(***************************************************************************)
(* C9.  The prompt-token count of a completion is 10 and the total is the  *)
(* prompt-token count plus the completion-token count.                     *)
(***************************************************************************)
C9_UsageTotals ==
  Completed =>
    /\ response.Usage.PromptTokens = 10
    /\ response.Usage.TotalTokens =
         response.Usage.PromptTokens + response.Usage.CompletionTokens

C9_Witness ==
  /\ Completed
  /\ response.Usage.CompletionTokens = 2
  /\ response.Usage.TotalTokens = 12

(***************************************************************************)
(* C10.  The text of a completion is the newline-joined text of the events *)
(* consumed, or the fallback string when that text is empty, and the       *)
(* completion is a success either way.                                     *)
(***************************************************************************)
C10_FallbackText ==
  Completed =>
    /\ response.status = 200
    /\ response.Content =
         IF Join(TextsOf(received), NL) = NoText
         THEN FallbackText
         ELSE Join(TextsOf(received), NL)

C10_Witness ==
  /\ Completed
  /\ received = <<EvResult>>
  /\ response.Content = FallbackText

(***************************************************************************)
(* C11.  As claimed: the text of a buffered completion is made of the      *)
(* whole-message extraction (every block's text, else its content, joined  *)
(* with newlines) of every assistant event consumed, so an event with      *)
(* several text blocks contributes all of them.                            *)
(***************************************************************************)
\* The whole-message texts of the assistant messages of evs, in order.
WholeTextsOf(evs) ==
  LET q == SelectSeq(evs, LAMBDA m : /\ m.Type = "assistant"
                                     /\ m.HasMessage
                                     /\ GetTextContent(m.Content) # NoText)
  IN [i \in 1..Len(q) |-> GetTextContent(q[i].Content)]

FirstIndex(bs, Test(_)) ==
  LET hits == {i \in 1..Len(bs) : Test(bs[i])} IN
    IF hits = {} THEN 0 ELSE CHOOSE i \in hits : \A j \in hits : i <= j

\* The text member of a block as a text: empty unless it is a string.
TextOf(b) == IF b.textKind = "string" THEN b.text ELSE NoText

C12_FirstTextTypedBlock ==
  extract.singleDone =>
    LET c == extract.content
        k == FirstIndex(c.blocks, LAMBDA b : b.type = "text")
    IN  extract.single =
          CASE c.kind = "string" -> c.s
            [] c.kind = "blocks" /\ k # 0 -> TextOf(c.blocks[k])
            [] OTHER -> NoText

(***************************************************************************)
(* C12, amended.  ExtractTextContent returns a string content unchanged;   *)
(* for a block sequence, the text field of the first block, in order,      *)
(* whose declared type is "text" and whose text field is a string (a       *)
(* text-typed block without a string text field is passed over), so at     *)
(* most one block is selected; and the empty text when there is no such    *)
(* block or the content is neither a string nor a block sequence.          *)
(***************************************************************************)
C12_FirstTextBlockWithText ==
  extract.singleDone =>
    LET c == extract.content
        k == FirstIndex(c.blocks,
                        LAMBDA b : b.type = "text" /\ b.textKind = "string")
    IN  extract.single =
          CASE c.kind = "string" -> c.s
            [] c.kind = "blocks" /\ k # 0 -> c.blocks[k].text
            [] OTHER -> NoText

\* Two text blocks with different texts: the first one's text is returned.
C12_Witness ==
  /\ extract.singleDone
  /\ extract.content.kind = "blocks"
  /\ Len(extract.content.blocks) = 2
  /\ \A i \in 1..2 : /\ extract.content.blocks[i].type = "text"
                      /\ extract.content.blocks[i].textKind = "string"
  /\ extract.content.blocks[1].text # extract.content.blocks[2].text
  /\ extract.single = extract.content.blocks[1].text

(***************************************************************************)
(* C13.  GetTextContent returns a string content unchanged; for a block    *)
(* sequence each block, whatever its type, contributes its text field if   *)
(* it has one, otherwise its content field if it has one, otherwise        *)
(* nothing, and the contributions are joined with newlines in block order. *)
(* On a sequence of blocks that have a content field and no text field it  *)
(* returns the joined contents while ExtractTextContent returns the empty  *)
(* text.                                                                   *)
(***************************************************************************)
\* The member a block contributes: its text if it has one, else its content.
Contributed(b) ==
  IF b.textKind # "absent" THEN Member(b.textKind, b.text)
  ELSE Member(b.contentKind, b.content)

C13_WholeMessageRule ==
  LET c == extract.content
      given == SelectSeq(c.blocks, LAMBDA b : Contributed(b).kind = "string")
      onlyContent == /\ c.kind = "blocks"
                     /\ c.blocks # << >>
                     /\ \A i \in 1..Len(c.blocks) :
                          /\ c.blocks[i].textKind = "absent"
                          /\ c.blocks[i].contentKind = "string"
  IN  /\ extract.wholeDone =>
           extract.whole =
             CASE c.kind = "string" -> c.s
               [] c.kind = "blocks" ->
                    Join([i \in 1..Len(given) |-> Contributed(given[i]).s], NL)
               [] OTHER -> NoText
      /\ extract.wholeDone /\ extract.singleDone /\ onlyContent =>
           /\ extract.whole =
                Join([i \in 1..Len(c.blocks) |-> c.blocks[i].content], NL)
           /\ extract.whole # NoText
           /\ extract.single = NoText

\* A text-typed block with a content field only, then a block with both.
C13_Witness ==
  /\ extract.wholeDone
  /\ extract.singleDone
  /\ extract.content.kind = "blocks"
  /\ Len(extract.content.blocks) = 2
  /\ extract.content.blocks[1].textKind = "absent"
  /\ extract.content.blocks[1].contentKind = "string"
  /\ extract.content.blocks[2].type = "tool_result"
  /\ extract.content.blocks[2].textKind = "string"
  /\ extract.content.blocks[2].contentKind = "string"
  /\ extract.whole = extract.content.blocks[1].content \o NL
                       \o extract.content.blocks[2].text
  /\ extract.single = NoText

(***************************************************************************)
(* C14.  All the chunks of one streamed response carry the same completion *)
(* identifier, model name and creation timestamp, those fixed when the     *)
(* converter was made; and the converter and the session identifier        *)
(* announced for the response do not change once the response has begun.   *)
(***************************************************************************)
\* The chunks written so far (the frames but the "data: [DONE]" frame).
Chunks == SelectSeq(emitted, LAMBDA f : f.frame = "chunk")

\* The handler is past the point where the response's headers are written.
Begun == hpc \notin {"create", "begin"}

C14_OneIdentity ==
  /\ [](stream /\ Begun /\ response.kind = "none" =>
          /\ converter.SessionID = sessionID
          /\ converter.Model = ReqModel
          /\ converter.CompletionID \in UUIDs
          /\ \A i \in 1..Len(Chunks) :
               /\ Chunks[i].ID = converter.CompletionID
               /\ Chunks[i].Model = converter.Model
               /\ Chunks[i].Created = converter.Created)
  /\ [][Begun => converter' = converter /\ sessionID' = sessionID]_vars

\* A finished stream of four chunks, announced under a generated session
\* identifier while the handle adopted the subprocess's own later.
C14_Witness ==
  /\ Streamed
  /\ Len(Chunks) = 4
  /\ sessionID \in GeneratedSessionIDs
  /\ SessionID = "s2"

(***************************************************************************)
(* C15.  The shape of a finished stream, by position: the first chunk      *)
(* carries the role marker only and no finish reason; each chunk between   *)
(* the first and the last carries content only, the whole extracted text   *)
(* of one event consumed (the k-th such chunk that of the k-th event with  *)
(* text); the last chunk has an empty delta and the finish reason "stop";  *)
(* so exactly one chunk has a finish reason, and the done frame follows.   *)
(***************************************************************************)
C15_ChunkShapes ==
  Streamed =>
    LET n == Len(Chunks) IN
      /\ n = Len(TextsOf(received)) + 2
      /\ emitted = Chunks \o <<FormatDone>>
      /\ Chunks[1].Role = "assistant"
      /\ Chunks[1].Content = NoText
      /\ Chunks[1].FinishReason = "nil"
      /\ \A i \in 2..(n - 1) :
           /\ Chunks[i].Role = ""
           /\ Chunks[i].Content # NoText
           /\ Chunks[i].Content = TextsOf(received)[i - 1]
           /\ \E j \in 1..Len(received) :
                Chunks[i].Content = ExtractTextContent(received[j].Content)
           /\ Chunks[i].FinishReason = "nil"
      /\ Chunks[n].Role = ""
      /\ Chunks[n].Content = NoText
      /\ Chunks[n].FinishReason = "stop"
      /\ Cardinality({i \in 1..n : Chunks[i].FinishReason # "nil"}) = 1

\* A stream of two events with text: two content chunks between the role
\* chunk and the final chunk.
C15_Witness ==
  /\ Streamed
  /\ received = <<EvBlocks, EvHello, EvResult>>
  /\ Len(Chunks) = 4
  /\ Chunks[2].Content = <<" ">>
  /\ Chunks[3].Content = <<"a", " ", "b">>

(***************************************************************************)
(* C16.  If the deadline passes while the subprocess is running and the    *)
(* consumer is waiting on the empty queue, then eventually the subprocess  *)
(* has been terminated, the parser has ended its read, the queue is closed *)
(* and the consumer has completed its response.                            *)
(***************************************************************************)
\* The consumer is blocked in "for msg := range proc.Output".
ConsumerWaits ==
  /\ hpc \in {"stream_loop", "buffer_loop"}
  /\ Output = << >>
  /\ ~closed

C16_DeadlineEndsAll ==
  (ctx = "done" /\ proc = "running" /\ ConsumerWaits)
    ~> (proc = "exited" /\ ppc = "done" /\ closed /\ hpc = "done")

(***************************************************************************)
(* C17.  When the queue closes before any result event was consumed, the   *)
(* response is what it would be for the same events followed by a result   *)
(* event: a stream still ends with exactly one final chunk ("stop") and    *)
(* the done frame, and a buffered request still gets a normal completion.  *)
(***************************************************************************)
NoResult(evs) == \A i \in 1..Len(evs) : evs[i].Type # "result"

\* The frames of a stream that consumed evs, which end with a result event.
StreamOf(evs) ==
  <<CreateInitialChunk(converter)>>
  \o [i \in 1..Len(TextsOf(evs)) |->
        CreateContentChunk(converter, TextsOf(evs)[i])]
  \o <<CreateFinalChunk(converter), FormatDone>>

\* The text of a completion that consumed evs, which end with a result event.
CompletionTextOf(evs) ==
  IF Join(TextsOf(evs), NL) = NoText THEN FallbackText
  ELSE Join(TextsOf(evs), NL)

C17_TruncatedAsComplete ==
  /\ (stream /\ hpc = "done" /\ proc # "none" /\ NoResult(received)) =>
       /\ response = NoResponse
       /\ emitted = StreamOf(Append(received, EvResult))
       /\ Cardinality({i \in 1..Len(emitted) :
                         emitted[i].FinishReason = "stop"}) = 1
       /\ Cardinality({i \in 1..Len(emitted) :
                         emitted[i] = FormatDone}) = 1
  /\ (~stream /\ hpc = "done" /\ proc # "none" /\ NoResult(received)) =>
       /\ response.status = 200
       /\ response.kind = "chat.completion"
       /\ response.Content = CompletionTextOf(Append(received, EvResult))
       /\ response.Usage = Usage(WordCount(response.Content))
       /\ emitted = << >>

\* A finished stream of one event with text and no result event.
C17_Witness ==
  /\ Streamed
  /\ closed
  /\ received = <<EvHello>>
  /\ Len(emitted) = 4
  /\ emitted[3].FinishReason = "stop"

(***************************************************************************)
(* C18.  When CreateSession fails, for capacity or for a failed launch,    *)
(* the client gets the one structured error (503, service unavailable,     *)
(* with a code) and nothing else: no chunk, no done frame, no completion.  *)
(* Start is called at most once per request, a response once written is    *)
(* never written again, and once a subprocess runs (whatever it prints)    *)
(* the response is never the error.                                        *)
(***************************************************************************)
\* CreateSession returned an error to the handler.
CreateSessionFailed == hpc # "create" /\ proc = "none"

C18_OneErrorNoRetry ==
  /\ [](/\ launch.calls <= 1
        /\ CreateSessionFailed <=> response.kind = "service_unavailable"
        /\ CreateSessionFailed =>
             /\ response.status = 503
             /\ response.Code = "claude_unavailable"
             /\ response.Content = NoText
             /\ emitted = << >>
             /\ received = << >>
             /\ hpc = "done"
             /\ launch.calls = IF launch.failedAt = "" THEN 0 ELSE 1
        /\ proc # "none" => response.kind # "service_unavailable")
  /\ [][response # NoResponse => response' = response]_vars

\* The error after cmd.Start failed, Start called once.
C18_Witness ==
  /\ response = UnavailableResponse
  /\ launch.failedAt = "start"
  /\ launch.calls = 1
  /\ hpc = "done"

(***************************************************************************)
(* C19.  When Start fails at StdoutPipe, StderrPipe or cmd.Start, the      *)
(* handle is left unstarted: the running flag is false, no queue was made, *)
(* none of the three goroutines was started, no subprocess runs, and the   *)
(* handler, given no handle, can only answer with the error.               *)
(***************************************************************************)
C19_FailedStartLeavesNothing ==
  /\ [](launch.failedAt \in StartFailures =>
          /\ ~IsRunning
          /\ ~launch.made
          /\ launch.flows = {}
          /\ proc = "none"
          /\ ppc = "none"
          /\ ~waited
          /\ Output = << >>
          /\ ~closed
          /\ response = UnavailableResponse
          /\ hpc = "done")
  /\ [][launch'.failedAt \in StartFailures => UNCHANGED processVars]_vars

\* Start failed at StderrPipe, after StdoutPipe had succeeded.
C19_Witness ==
  /\ launch.failedAt = "stderr"
  /\ launch.cmd
  /\ ~IsRunning
  /\ response = UnavailableResponse

(***************************************************************************)
(* C20.  Stop can be called in every state of the handle (never started,   *)
(* running, exited, stopped) and never waits for the subprocess to exit.   *)
(* A call leaves the running flag false, sends the kill only when there is *)
(* a process, and changes nothing else: it does not close or touch the     *)
(* queue or the session identifier.  A call on a handle that is already    *)
(* stopped changes nothing at all.                                         *)
(***************************************************************************)
\* The state one Stop leaves and a second Stop finds.
Stopped == ~IsRunning /\ proc # "running"

C20_StopIdempotent ==
  /\ [](ENABLED Stop)
  /\ [][Stop =>
         /\ Stopped'
         /\ proc' # proc => HasProcess /\ proc = "running" /\ proc' = "killed"
         /\ UNCHANGED <<Output, closed, SessionID, ppc, pmsg, written, nread,
                        waited, launch, handlerVars>>]_vars
  /\ [][Stop /\ Stopped => UNCHANGED vars]_vars

\* Stop has returned: the flag is false while the killed subprocess has not
\* exited yet, the parser still reads and the queue is open.
C20_Witness ==
  /\ proc = "killed"
  /\ ~IsRunning
  /\ ppc = "scan"
  /\ ~closed
  /\ SessionID = "s2"

(***************************************************************************)
(* C21.  However many GetVersion calls there are, one after another or at  *)
(* once, "claude --version" is run at most once; and after a probe that    *)
(* succeeded every call returns the one cached version, with no error.     *)
(***************************************************************************)
\* The calls that have returned.
Returned == {c \in DOMAIN vcalls : vcalls[c].pc = "returned"}

\* The one probe has run and succeeded (m.version may still be empty when
\* the probe printed nothing but space).
ProbeSucceeded ==
  /\ versionOnce = "done"
  /\ \A c \in DOMAIN vcalls : ~vcalls[c].err

C21_ProbeOnce ==
  /\ [](/\ probes <= 1
        /\ Cardinality({c \in DOMAIN vcalls : vcalls[c].pc = "probe"}) <= 1
        /\ probes = 1 <=> versionOnce = "done"
        /\ ProbeSucceeded =>
             \A c \in Returned : /\ vcalls[c].ret = version
                                 /\ ~vcalls[c].retErr)
  /\ [][versionOnce = "done" => version' = version /\ probes' = probes]_vars

\* All the calls have returned the version of the one probe.
C21_Witness ==
  /\ probes = 1
  /\ Returned = VersionCalls
  /\ \A c \in VersionCalls : vcalls[c].ret = <<"1">> /\ ~vcalls[c].retErr

(***************************************************************************)
(* C30.  If the version probe fails, every GetVersion call, the first and  *)
(* every later one, returns an error, so the health endpoint answers       *)
(* unhealthy on every request after a failed probe; no call returns an     *)
(* empty version together with no error.                                   *)
(***************************************************************************)
\* The one probe has run and failed.
ProbeFailed ==
  /\ versionOnce = "done"
  /\ \E c \in DOMAIN vcalls : vcalls[c].err

C30_FailedProbeFailsAll ==
  ProbeFailed =>
    \A c \in Returned : /\ vcalls[c].retErr
                        /\ HealthStatus(vcalls[c]) = 503

UpToResult(evs) ==
  LET at == {i \in 1..Len(evs) : evs[i].Type = "result"} IN
    IF at = {} THEN evs
    ELSE SubSeq(evs, 1, CHOOSE i \in at : \A j \in at : i <= j)

\* The content chunks written so far, as texts.
ChunkTexts ==
  LET cs == SelectSeq(emitted, LAMBDA f : f.frame = "chunk"
                                          /\ f.Content # NoText)
  IN  [i \in 1..Len(cs) |-> cs[i].Content]

C22_StopsAtFirstResult ==
  /\ received = UpToResult(received)
  /\ IsPrefix(received, UpToResult(EventsOf(Scanned)))
  /\ stream /\ Begun => ChunkTexts = TextsOf(UpToResult(received))
  /\ ~stream => contentParts = TextsOf(UpToResult(received))
  /\ (received # << >> /\ received[Len(received)].Type = "result") =>
       /\ hpc \in {"stream_final", "buffer_respond", "done"}
       /\ hpc = "stream_final" => ENABLED StreamFinishes
       /\ hpc = "buffer_respond" => ENABLED BufferResponds

\* A finished stream that stopped at the result event, with a later event
\* with text left in the queue, which is not closed.
C22_Witness ==
  /\ Streamed
  /\ received = <<EvResult>>
  /\ Output = <<EvHello>>
  /\ ~closed
  /\ Len(emitted) = 3

(***************************************************************************)
(* C23.  After a successful Start the running flag is true exactly as long *)
(* as the stdout goroutine has not left its loop and cleared it; the exit  *)
(* of the subprocess and the return of cmd.Wait do not change it; it is    *)
(* written only by Start and by the stdout goroutine, each holding p.mu;   *)
(* and once false after a Start it is never true again.                    *)
(***************************************************************************)
\* Start has succeeded.
Started == launch.failedAt = "none"

SendBlocked == ppc = "send" /\ Len(Output) = OutputCap

C24_BoundedQueue ==
  /\ [](/\ Len(Output) <= OutputCap
        /\ SendBlocked => ~ENABLED ParserSends)
  /\ [][(SendBlocked => ppc' = ppc /\ pmsg' = pmsg /\ nread' = nread)
        /\ (Output' # Output =>
              \/ /\ ppc = "send"
                 /\ Output' = Append(Output, pmsg)
                 /\ received' = received
              \/ /\ Output # << >>
                 /\ Output' = Tail(Output)
                 /\ received' = Append(received, Head(Output))
                 /\ pmsg' = pmsg)]_vars

\* The consumer has taken one event and is slow with the next: the queue is
\* full and the parser holds a third event.
C24_Witness ==
  /\ SendBlocked
  /\ Len(received) + Len(Output) + 1 = MaxLines
  /\ received # << >>
  /\ hpc \in {"stream_loop", "buffer_loop"}
  /\ nread = Len(written)

(***************************************************************************)
(* C26.  The arguments Start builds are: the prompt flag and the prompt;   *)
(* then the system-prompt flag and value if and only if the system prompt  *)
(* is not empty; then the model flag and value if and only if the model is *)
(* not empty, the model passed on unchanged whatever its name; then the    *)
(* four output-mode flags, always last and always the same.  The working   *)
(* directory is the handle's project path.                                 *)
(***************************************************************************)
C26_ArgumentList ==
  cmdline.built =>
    LET a == cmdline.args
        hasSys == cmdline.systemPrompt # ""
        hasModel == cmdline.model # ""
        atModel == IF hasSys THEN 5 ELSE 3
        n == 2 + (IF hasSys THEN 2 ELSE 0) + (IF hasModel THEN 2 ELSE 0)
    IN  /\ Len(a) = n + 4
        /\ a[1] = "-p"
        /\ a[2] = cmdline.prompt
        /\ hasSys => a[3] = "--system-prompt" /\ a[4] = cmdline.systemPrompt
        /\ hasModel => a[atModel] = "--model" /\ a[atModel + 1] = cmdline.model
        /\ SubSeq(a, n + 1, n + 4) =
             <<"--output-format", "stream-json", "--verbose",
               "--dangerously-skip-permissions">>
        /\ cmdline.Dir = cmdline.ProjectPath

\* A system prompt and a model name the gateway does not know, both passed.
C26_Witness ==
  /\ cmdline.built
  /\ cmdline.systemPrompt = "be brief"
  /\ cmdline.model = "no such model"
  /\ Len(cmdline.args) = 10
  /\ cmdline.args[6] = "no such model"

(***************************************************************************)
(* C27.  For every handle that was started: once the subprocess has exited *)
(* or been killed, the stdout goroutine eventually finishes, the queue     *)
(* closed and the running flag false, also when the consumer stopped at a  *)
(* result event while more events were to come.                            *)
(***************************************************************************)
C27_ParserTerminates ==
  (proc = "exited") ~> (ppc = "done" /\ closed /\ ~IsRunning)

(***************************************************************************)
(* C28.  When the queue is closed, every line that holds an event and that *)
(* the subprocess wrote before it exited has been decoded and put on the   *)
(* queue, however the stdout goroutine and the wait goroutine interleave.  *)
(* (Stated for output whose lines all fit the scanner's buffer.)           *)
(***************************************************************************)
\* Every line written fits the scanner's buffer.
AllLinesFit == \A i \in 1..Len(written) : ScanFits(written[i])

C28_NoOutputLost ==
  (closed /\ AllLinesFit) =>
    /\ proc = "exited"
    /\ received \o Output = EventsOf(written)

(***************************************************************************)
(* C29.  The session id reported to the client is chosen once, when the    *)
(* handler begins, from an unsynchronised read of the handle's session id: *)
(* in every interleaving it is the id the handle has adopted or a freshly  *)
(* generated one, and a later adoption never changes it.                   *)
(***************************************************************************)
C29_ReportedSessionID ==
  /\ []((HasProcess /\ Begun) =>
          \/ sessionID \in GeneratedSessionIDs
          \/ sessionID # "" /\ sessionID = SessionID)
  /\ [][(HasProcess /\ Begun) => sessionID' = sessionID]_vars

(***************************************************************************)
(* C31.  No subprocess outlives its request: for a request whose           *)
(* CreateSession succeeded, once the handler has returned (in either mode, *)
(* also when it stopped at a result event while the subprocess was still   *)
(* running) the launch context is cancelled and the subprocess is          *)
(* eventually terminated; Stop and CleanupAll take no part in it.          *)
(***************************************************************************)
\* The handler of a request that got a Process has returned.
Returned31 == HasProcess /\ hpc = "done"

C31_NoSubprocessOutlives ==
  /\ [](Returned31 => ctx = "done")
  /\ Returned31 ~> (proc = "exited")
  /\ [][(proc = "running" /\ proc' # "running") =>
          (proc' = "exited" /\ (SubprocessExits \/ ContextKills))]_vars

\* The handler stopped at a result event and returned while the subprocess
\* was still running and had more to say: its context is cancelled.
C31_Witness ==
  /\ Returned31
  /\ ctx = "done"
  /\ proc = "running"
  /\ received # << >>
  /\ received[Len(received)].Type = "result"
  /\ nread < Len(written)

=============================================================================
